---- MODULE Spec2Model ----
(***************************************************************************)
(* Model of scrape_boxing247_text.py: the text-to-event pipeline           *)
(* (split_into_cards, parse_card_header_and_fights, extract_ringwalk_time, *)
(* build_events_from_text).                                                *)
(*                                                                         *)
(* A Python string is a sequence of one-character strings.  A code point   *)
(* outside ASCII is written as the single element "U+XXXX".                *)
(* A datetime is a record [wall, tz, fold]: wall is the wall-clock reading *)
(* in minutes (proleptic Gregorian ordinal * 1440 + minute of day), tz the *)
(* zone key, fold the PEP 495 fold bit.                                    *)
(***************************************************************************)
EXTENDS Integers, Sequences, FiniteSets, TLC

VARIABLES
    current_year,  \* datetime.now(CT_ZONE).year of the run
    text,          \* argument of build_events_from_text
    cards,         \* result of split_into_cards(text)
    idx,           \* number of cards the for loop has taken so far
    card,          \* loop variable
    fields,        \* (date_str, location, info, main_fight) of the current card
    events,        \* the list being built
    pc,            \* position in build_events_from_text
    args,          \* arguments of a direct call of extract_ringwalk_time
    ret            \* its outcome

vars == <<current_year, text, cards, idx, card, fields, events, pc, args, ret>>

\* None where a string is expected, None where a datetime is expected, a raised
\* exception, and the `continue` of the loop body
None == <<"None">>
NoDatetime == [none |-> TRUE]
Raised == [raised |-> "ValueError"]
Continue == [continue |-> TRUE]

(***************************************************************************)
(* Characters and strings                                                  *)
(***************************************************************************)
UpperSeq ==
    <<"A","B","C","D","E","F","G","H","I","J","K","L","M",
      "N","O","P","Q","R","S","T","U","V","W","X","Y","Z">>
LowerSeq ==
    <<"a","b","c","d","e","f","g","h","i","j","k","l","m",
      "n","o","p","q","r","s","t","u","v","w","x","y","z">>
DigitSeq == <<"0","1","2","3","4","5","6","7","8","9">>

Range(s) == {s[k] : k \in DOMAIN s}
IsUpper(c) == c \in Range(UpperSeq)
IsLower(c) == c \in Range(LowerSeq)
IsDigit(c) == c \in Range(DigitSeq)
\* \s of the re module
IsSpace(c) == c \in {" ", "U+000A", "U+0009"}
\* \w of the re module on str patterns: letters of any script, digits, underscore
IsWord(c) == IsUpper(c) \/ IsLower(c) \/ IsDigit(c) \/ c \in {"_", "U+00E9"}
DigitVal(c) == (CHOOSE k \in DOMAIN DigitSeq : DigitSeq[k] = c) - 1
LowerChar(c) ==
    IF IsUpper(c) THEN LowerSeq[CHOOSE k \in DOMAIN UpperSeq : UpperSeq[k] = c] ELSE c
\* str.lower()
Lower(s) == [k \in DOMAIN s |-> LowerChar(s[k])]

\* s[p:] and s[:p] with 1-based p
From(s, p) == SubSeq(s, p, Len(s))
Upto(s, p) == SubSeq(s, 1, p)

\* the literal lit occurs in s at position p
LitAt(s, p, lit) ==
    /\ p >= 1
    /\ p + Len(lit) - 1 <= Len(s)
    /\ \A k \in DOMAIN lit : s[p + k - 1] = lit[k]
\* the same under re.I
LitAtI(s, p, lit) ==
    /\ p >= 1
    /\ p + Len(lit) - 1 <= Len(s)
    /\ \A k \in DOMAIN lit : LowerChar(s[p + k - 1]) = LowerChar(lit[k])
\* str.find, 1-based, 0 when absent
Find(s, lit) ==
    IF \E p \in 1..Len(s) : LitAt(s, p, lit)
    THEN CHOOSE p \in 1..Len(s) : LitAt(s, p, lit) /\ \A q \in 1..(p-1) : ~LitAt(s, q, lit)
    ELSE 0
\* the `in` operator on strings
Contains(s, lit) == lit = <<>> \/ Find(s, lit) > 0

\* the position after the run of \s that starts at p
RECURSIVE SkipSpace(_, _)
SkipSpace(s, p) == IF p <= Len(s) /\ IsSpace(s[p]) THEN SkipSpace(s, p + 1) ELSE p

\* the least element of a non-empty set of integers
Least(S) == CHOOSE x \in S : \A y \in S : x <= y
Greatest(S) == CHOOSE x \in S : \A y \in S : x >= y

\* str.strip()
Strip(s) ==
    LET keep == {p \in DOMAIN s : ~IsSpace(s[p])}
    IN  IF keep = {} THEN <<>> ELSE SubSeq(s, Least(keep), Greatest(keep))

\* re.sub(r"\s+", " ", text): what position p contributes, a run of white
\* space giving one space at its first character
CollapsePiece(s, p) ==
    IF ~IsSpace(s[p]) THEN <<s[p]>>
    ELSE IF p = 1 \/ ~IsSpace(s[p - 1]) THEN <<" ">>
    ELSE <<>>
RECURSIVE CollapseRange(_, _, _)
CollapseRange(s, lo, hi) ==
    IF lo > hi THEN <<>>
    ELSE IF lo = hi THEN CollapsePiece(s, lo)
    ELSE CollapseRange(s, lo, (lo + hi) \div 2) \o CollapseRange(s, (lo + hi) \div 2 + 1, hi)
CollapseSpace(s) == CollapseRange(s, 1, Len(s))

normalize_space(s) == Strip(CollapseSpace(s))

(***************************************************************************)
(* Program constants                                                       *)
(***************************************************************************)
MonthNames ==
    <<<<"J","a","n","u","a","r","y">>,
      <<"F","e","b","r","u","a","r","y">>,
      <<"M","a","r","c","h">>,
      <<"A","p","r","i","l">>,
      <<"M","a","y">>,
      <<"J","u","n","e">>,
      <<"J","u","l","y">>,
      <<"A","u","g","u","s","t">>,
      <<"S","e","p","t","e","m","b","e","r">>,
      <<"O","c","t","o","b","e","r">>,
      <<"N","o","v","e","m","b","e","r">>,
      <<"D","e","c","e","m","b","e","r">>>>
\* the calendar glyph as the source file spells it (four code points)
MarkerGlyph == <<"U+00F0","U+0178","U+201C","U+2026">>
VersusLit == <<"v","e","r","s","u","s">>
BoutSepLit == <<" ","v","e","r","s","u","s">>
LocalTimeLit == <<"L","o","c","a","l"," ","T","i","m","e">>
EtLit == <<"E","T">>
UkLit == <<"U","K">>
CardNamePrefix == <<"B","o","x","i","n","g"," ","c","a","r","d"," ","U+00E2","U+20AC","U+201C"," ">>
DateLabel == <<"D","a","t","e",":"," ">>
LocationLabel == <<"L","o","c","a","t","i","o","n",":"," ">>
InfoLabel == <<"I","n","f","o",":"," ">>
SourceLine ==
    <<"S","o","u","r","c","e",":"," ","B","o","x","i","n","g","2","4","7",".","c","o","m">>
UidSuffix == <<"@","b","o","x","i","n","g","2","4","7","-","c","a","l","e","n","d","a","r">>
Ellipsis == <<".",".",".">>
CT_ZONE == "America/Chicago"
UTC == "UTC"
LOCATION_TIMEZONES ==
    <<<<<<"U","S","A">>, "America/New_York">>,
      <<<<"U","n","i","t","e","d"," ","S","t","a","t","e","s">>, "America/New_York">>,
      <<<<"E","n","g","l","a","n","d">>, "Europe/London">>,
      <<<<"U","K">>, "Europe/London">>,
      <<<<"S","c","o","t","l","a","n","d">>, "Europe/London">>,
      <<<<"W","a","l","e","s">>, "Europe/London">>,
      <<<<"I","r","e","l","a","n","d">>, "Europe/Dublin">>,
      <<<<"M","e","x","i","c","o">>, "America/Mexico_City">>,
      <<<<"A","u","s","t","r","a","l","i","a">>, "Australia/Brisbane">>,
      <<<<"P","u","e","r","t","o"," ","R","i","c","o">>, "America/Puerto_Rico">>,
      <<<<"G","e","r","m","a","n","y">>, "Europe/Berlin">>,
      <<<<"D","e","n","m","a","r","k">>, "Europe/Copenhagen">>,
      <<<<"J","a","p","a","n">>, "Asia/Tokyo">>,
      <<<<"U","n","i","t","e","d"," ","A","r","a","b"," ","E","m","i","r","a","t","e","s">>,
        "Asia/Dubai">>,
      <<<<"S","a","u","d","i"," ","A","r","a","b","i","a">>, "Asia/Riyadh">>,
      <<<<"C","a","n","a","d","a">>, "America/Toronto">>>>
\* the window .{0,40} of the three ringwalk patterns
RingwalkWindow == 40
\* the cap of the fallback headline
FallbackCap == 200
\* hour of the default start
DefaultHour == 21
\* timedelta(hours=3)
DurationHours == 3

(***************************************************************************)
(* The date anchor: optional glyph and spaces, Month, spaces, day, colon   *)
(***************************************************************************)
\* MONTHS_REGEX at position p: the number of the month matched, 0 when none
MONTHS_REGEX(s, p) ==
    IF \E k \in DOMAIN MonthNames : LitAt(s, p, MonthNames[k])
    THEN CHOOSE k \in DOMAIN MonthNames : LitAt(s, p, MonthNames[k])
    ELSE 0

NoMatch == [end |-> 0]

\* Month\s+\d{1,2}: at position q; end is the position after the colon
DateAt(s, q) ==
    LET k == MONTHS_REGEX(s, q)
        r == IF k = 0 THEN 0 ELSE q + Len(MonthNames[k])
        d == SkipSpace(s, r)
        Is(p, c) == p <= Len(s) /\ s[p] = c
        Dig(p) == p <= Len(s) /\ IsDigit(s[p])
    IN  IF k = 0 \/ d = r THEN NoMatch
        ELSE IF Dig(d) /\ Dig(d + 1) /\ Is(d + 2, ":")
             THEN [end |-> d + 3, month |-> k, from |-> q, colon |-> d + 2]
        ELSE IF Dig(d) /\ Is(d + 1, ":")
             THEN [end |-> d + 2, month |-> k, from |-> q, colon |-> d + 1]
        ELSE NoMatch

\* the whole anchor at position p
AnchorAt(s, p) ==
    IF LitAt(s, p, MarkerGlyph)
    THEN DateAt(s, SkipSpace(s, p + Len(MarkerGlyph)))
    ELSE DateAt(s, p)

\* re.finditer(pattern, text): the start positions of the successive matches,
\* each search resuming where the previous match ended
RECURSIVE AnchorStarts(_, _)
AnchorStarts(s, p) ==
    LET found == {q \in p..Len(s) : AnchorAt(s, q).end > 0}
    IN  IF found = {} THEN <<>>
        ELSE <<Least(found)>> \o AnchorStarts(s, AnchorAt(s, Least(found)).end)

split_into_cards(t) ==
    LET s == normalize_space(t)
        matches == AnchorStarts(s, 1)
        segment(i) ==
            Strip(SubSeq(s, matches[i],
                         IF i + 1 <= Len(matches) THEN matches[i + 1] - 1 ELSE Len(s)))
        all == [i \in DOMAIN matches |-> segment(i)]
    IN  SelectSeq(all, LAMBDA seg : seg # <<>>)

(***************************************************************************)
(* parse_card_header_and_fights                                            *)
(***************************************************************************)
\* .* stops at a line break
DotStarEnd(s, p) == Least({q \in p..(Len(s) + 1) : q = Len(s) + 1 \/ s[q] = "U+000A"})

\* re.match of the anchor pattern followed by the remainder, on card_text:
\* group 2 is the date, group 3 the month name (MONTHS_REGEX brings its own
\* parentheses), group 4 the remainder of the line
HeaderMatch(s) ==
    LET a == AnchorAt(s, 1)
        r == SkipSpace(s, a.end)
    IN  IF a.end = 0 THEN [ok |-> FALSE]
        ELSE [ok |-> TRUE,
              g2 |-> SubSeq(s, a.from, a.colon - 1),
              g3 |-> MonthNames[a.month],
              g4 |-> SubSeq(s, r, DotStarEnd(s, r) - 1)]

\* rest = m.group(3).strip()
RestOf(m) == Strip(m.g3)

\* a year as four digits
YearDigits(y) ==
    <<DigitSeq[((y \div 1000) % 10) + 1], DigitSeq[((y \div 100) % 10) + 1],
      DigitSeq[((y \div 10) % 10) + 1], DigitSeq[(y % 10) + 1]>>

\* last position of character c in s, 0 when absent
LastPos(s, c) ==
    IF \E p \in DOMAIN s : s[p] = c
    THEN CHOOSE p \in DOMAIN s : s[p] = c /\ \A q \in (p+1)..Len(s) : s[q] # c
    ELSE 0

\* re.match of the location pattern on header_part: lazy prefix, then a
\* parenthesised group taken greedily
LocMatch(h) ==
    LET a == Find(h, <<"(">>)
        b == LastPos(h, ")")
    IN  IF a > 0 /\ b > a
             /\ \A p \in 1..b : h[p] # "U+000A"
        THEN [ok |-> TRUE, g1 |-> Upto(h, a - 1), g3 |-> SubSeq(h, a + 1, b - 1)]
        ELSE [ok |-> FALSE]

\* re.sub(r"[^\w\s,]+$", "", loc)
RECURSIVE StripTrailingDecoration(_)
StripTrailingDecoration(s) ==
    IF s # <<>> /\ ~IsWord(s[Len(s)]) /\ ~IsSpace(s[Len(s)]) /\ s[Len(s)] # ","
    THEN StripTrailingDecoration(Upto(s, Len(s) - 1))
    ELSE s

\* the position after a run [A-Z][a-z]+ that starts at p, 0 when there is none
RECURSIVE LowerRunEnd(_, _)
LowerRunEnd(s, p) == IF p <= Len(s) /\ IsLower(s[p]) THEN LowerRunEnd(s, p + 1) ELSE p
CapWordEnd(s, p) ==
    IF p + 1 <= Len(s) /\ IsUpper(s[p]) /\ IsLower(s[p + 1]) THEN LowerRunEnd(s, p + 1) ELSE 0

\* the lookahead (?=(?: [A-Z][a-z]+ [A-Z][a-z]+ versus|glyph|$)) at position e
HeadlineStop(s, e) ==
    \/ e = Len(s) + 1
    \/ e = Len(s) /\ s[e] = "U+000A"
    \/ LitAt(s, e, MarkerGlyph)
    \/ /\ e <= Len(s) /\ s[e] = " "
       /\ LET w1 == CapWordEnd(s, e + 1)
              w2 == IF w1 = 0 \/ w1 > Len(s) \/ s[w1] # " " THEN 0 ELSE CapWordEnd(s, w1 + 1)
          IN  w2 > 0 /\ LitAt(s, w2, BoutSepLit)

\* [^glyph]+? after "versus", from position e0: the lengths k >= 1 that stay
\* clear of the glyph's characters and end where the lookahead holds
HeadlineTails(s, e0) ==
    {k \in 1..(Len(s) - e0 + 1) :
        /\ \A q \in e0..(e0 + k - 1) : s[q] \notin Range(MarkerGlyph)
        /\ HeadlineStop(s, e0 + k)}

\* [A-Z][^,]+?versus from position i: the lengths j >= 1 of the lazy part for
\* which the rest of the pattern matches
HeadlineLeads(s, i) ==
    {j \in 1..(Len(s) - i) :
        /\ \A q \in (i + 1)..(i + j) : s[q] # ","
        /\ LitAt(s, i + j + 1, VersusLit)
        /\ HeadlineTails(s, i + j + 1 + Len(VersusLit)) # {}}

\* re.search of the headline pattern: group 1 of the leftmost match with the
\* shortest lazy parts, or None
HeadlineSearch(s) ==
    LET starts == {i \in DOMAIN s : IsUpper(s[i]) /\ HeadlineLeads(s, i) # {}}
    IN  IF starts = {} THEN None
        ELSE LET i == Least(starts)
                 j == Least(HeadlineLeads(s, i))
                 e0 == i + j + 1 + Len(VersusLit)
                 k == Least(HeadlineTails(s, e0))
             IN  SubSeq(s, i, e0 + k - 1)

\* the main_fight part of parse_card_header_and_fights
MainFight(fights_part) ==
    IF fights_part = <<>> THEN None
    ELSE LET g == HeadlineSearch(fights_part)
             cut == Find(fights_part, MarkerGlyph)
             first == Strip(IF cut = 0 THEN fights_part ELSE Upto(fights_part, cut - 1))
         IN  IF g # None THEN Strip(g)
             ELSE IF Len(first) > FallbackCap THEN Upto(first, FallbackCap) \o Ellipsis
             ELSE first

\* the fields from the date of the anchor and the text taken as `rest`
FieldsFrom(date_no_year, rest, year) ==
    LET date_str == date_no_year \o <<",", " ">> \o YearDigits(year)
        idx_paren == Find(rest, <<")">>)
        header_part == IF idx_paren # 0 THEN Upto(rest, idx_paren) ELSE rest
        fights_part == IF idx_paren # 0 THEN Strip(From(rest, idx_paren + 1)) ELSE <<>>
        m_loc == LocMatch(header_part)
        loc0 == IF m_loc.ok THEN Strip(m_loc.g1) ELSE header_part
        info == IF m_loc.ok THEN Strip(m_loc.g3) ELSE None
        loc == Strip(StripTrailingDecoration(loc0))
    IN  <<date_str, loc, info, MainFight(fights_part)>>

parse_card_header_and_fights(card_text, year) ==
    LET m == HeaderMatch(normalize_space(card_text))
    IN  IF ~m.ok THEN <<None, None, None, None>>
        ELSE FieldsFrom(m.g2, RestOf(m), year)

(***************************************************************************)
(* Calendar arithmetic of the datetime module                              *)
(***************************************************************************)
IsLeap(y) == y % 4 = 0 /\ (y % 100 # 0 \/ y % 400 = 0)
DaysInMonth(y, m) ==
    IF m = 2 THEN (IF IsLeap(y) THEN 29 ELSE 28)
    ELSE IF m \in {4, 6, 9, 11} THEN 30 ELSE 31
DaysBeforeYear(y) == (y - 1) * 365 + (y - 1) \div 4 - (y - 1) \div 100 + (y - 1) \div 400
RECURSIVE DaysBeforeMonth(_, _)
DaysBeforeMonth(y, m) ==
    IF m = 1 THEN 0 ELSE DaysBeforeMonth(y, m - 1) + DaysInMonth(y, m - 1)
\* date.toordinal(): 1 for 1 January of year 1
Ymd2Ord(y, m, d) == DaysBeforeYear(y) + DaysBeforeMonth(y, m) + d
YearOfOrd(n) ==
    LET y0 == (n * 400) \div 146097 + 1
    IN  IF n <= DaysBeforeYear(y0) THEN y0 - 1
        ELSE IF n > DaysBeforeYear(y0 + 1) THEN y0 + 1
        ELSE y0
MonthOfOrd(n) ==
    LET y == YearOfOrd(n)
        doy == n - DaysBeforeYear(y)
    IN  CHOOSE m \in 1..12 :
            DaysBeforeMonth(y, m) < doy /\ doy <= DaysBeforeMonth(y, m) + DaysInMonth(y, m)
DayOfOrd(n) ==
    n - DaysBeforeYear(YearOfOrd(n)) - DaysBeforeMonth(YearOfOrd(n), MonthOfOrd(n))

\* the wall-clock reading of datetime(y, m, d, h, mi)
WallOf(y, m, d, h, mi) == Ymd2Ord(y, m, d) * 1440 + h * 60 + mi
OrdOfWall(w) == w \div 1440

(***************************************************************************)
(* ZoneInfo: the offsets of the zones the program names, by the rules in   *)
(* force in the modelled years                                             *)
(***************************************************************************)
\* weekday() is 6 on Sunday, that is ordinal % 7 = 0
SundayOnOrAfter(n) == n + ((7 - (n % 7)) % 7)
NthSunday(y, m, k) == SundayOnOrAfter(Ymd2Ord(y, m, 1)) + 7 * (k - 1)
LastSunday(y, m) ==
    LET last == Ymd2Ord(y, m, DaysInMonth(y, m)) IN last - (last % 7)

\* standard offset in minutes and daylight rule of each zone
ZoneStd(z) ==
    CASE z = "America/Chicago" -> -360
      [] z = "America/New_York" -> -300
      [] z = "America/Toronto" -> -300
      [] z = "America/Mexico_City" -> -360
      [] z = "America/Puerto_Rico" -> -240
      [] z = "Europe/London" -> 0
      [] z = "Europe/Dublin" -> 0
      [] z = "Europe/Berlin" -> 60
      [] z = "Europe/Copenhagen" -> 60
      [] z = "Australia/Brisbane" -> 600
      [] z = "Asia/Tokyo" -> 540
      [] z = "Asia/Dubai" -> 240
      [] z = "Asia/Riyadh" -> 180
      [] z = "UTC" -> 0
ZoneRule(z) ==
    IF z \in {"America/Chicago", "America/New_York", "America/Toronto"} THEN "US"
    ELSE IF z \in {"Europe/London", "Europe/Dublin", "Europe/Berlin", "Europe/Copenhagen"}
         THEN "EU"
    ELSE "fixed"

\* the UTC instants at which daylight time of zone z starts and ends in year y
DstStartUtc(z, y) ==
    IF ZoneRule(z) = "US"
    THEN NthSunday(y, 3, 2) * 1440 + 120 - ZoneStd(z)
    ELSE LastSunday(y, 3) * 1440 + 60
DstEndUtc(z, y) ==
    IF ZoneRule(z) = "US"
    THEN NthSunday(y, 11, 1) * 1440 + 120 - (ZoneStd(z) + 60)
    ELSE LastSunday(y, 10) * 1440 + 60

\* tzinfo.utcoffset of a wall-clock reading: with fold 0 a reading inside a gap
\* keeps the offset before the change and an ambiguous reading is the first one
UtcOffset(z, wall, fold) ==
    IF ZoneRule(z) = "fixed" THEN ZoneStd(z)
    ELSE LET y == YearOfOrd(OrdOfWall(wall))
             shift == IF fold = 0 THEN ZoneStd(z) + 60 ELSE ZoneStd(z)
         IN  IF DstStartUtc(z, y) + shift <= wall /\ wall < DstEndUtc(z, y) + shift
             THEN ZoneStd(z) + 60
             ELSE ZoneStd(z)

\* tzinfo.fromutc: the reading of zone z at the UTC instant u
FromUtc(z, u) ==
    LET y == YearOfOrd(OrdOfWall(u))
        dst == ZoneRule(z) # "fixed" /\ DstStartUtc(z, y) <= u /\ u < DstEndUtc(z, y)
        rep == ZoneRule(z) # "fixed" /\ DstEndUtc(z, y) <= u /\ u < DstEndUtc(z, y) + 60
    IN  [wall |-> u + ZoneStd(z) + (IF dst THEN 60 ELSE 0),
         tz |-> z,
         fold |-> IF rep THEN 1 ELSE 0]

\* the UTC instant of an aware datetime
UtcInstant(dt) == dt.wall - UtcOffset(dt.tz, dt.wall, dt.fold)
\* dt.astimezone(z); the datetime itself when it is already in zone z
AsTimezone(dt, z) == IF dt.tz = z THEN dt ELSE FromUtc(z, UtcInstant(dt))
\* dt.replace(tzinfo=z)
ReplaceTz(dt, z) == [dt EXCEPT !.tz = z]
\* dt + timedelta(hours=h): arithmetic on the reading, the fold bit is reset
AddHours(dt, h) == [wall |-> dt.wall + h * 60, tz |-> dt.tz, fold |-> 0]

(***************************************************************************)
(* datetime.strptime for the two formats the program uses                  *)
(***************************************************************************)
\* the month name of %B at the start of s, any letter case
MonthByName(s) ==
    IF \E k \in DOMAIN MonthNames : LitAtI(s, 1, MonthNames[k])
    THEN CHOOSE k \in DOMAIN MonthNames : LitAtI(s, 1, MonthNames[k])
    ELSE 0

\* a field of one or two digits at p that must be followed by character c:
\* [value, next position], value -1 when the field does not match
TwoDigitField(s, p, c, lo, hi) ==
    LET Dig(q) == q <= Len(s) /\ IsDigit(s[q])
        Is(q) == q <= Len(s) /\ s[q] = c
        v2 == IF Dig(p) /\ Dig(p + 1) THEN DigitVal(s[p]) * 10 + DigitVal(s[p + 1]) ELSE -1
        v1 == IF Dig(p) THEN DigitVal(s[p]) ELSE -1
    IN  IF v2 >= lo /\ v2 <= hi /\ Is(p + 2) THEN <<v2, p + 2>>
        ELSE IF v1 >= lo /\ v1 <= hi /\ Is(p + 1) THEN <<v1, p + 1>>
        ELSE <<-1, 0>>

\* %M: [0-5]\d or \d, followed by white space
MinuteField(s, p) ==
    LET Dig(q) == q <= Len(s) /\ IsDigit(s[q])
        Sp(q) == q <= Len(s) /\ IsSpace(s[q])
    IN  IF Dig(p) /\ Dig(p + 1) /\ DigitVal(s[p]) <= 5 /\ Sp(p + 2)
        THEN <<DigitVal(s[p]) * 10 + DigitVal(s[p + 1]), p + 2>>
        ELSE IF Dig(p) /\ Sp(p + 1) THEN <<DigitVal(s[p]), p + 1>>
        ELSE <<-1, 0>>

\* variant: any day number up to 31 passes
DayInRange_AnyMonth(y, m, d) == d <= 31
\* the range check of the datetime constructor on the day
DayInRange(y, m, d) == d <= DaysInMonth(y, m)

\* strptime(s, "%B %d, %Y") when timed is FALSE,
\* strptime(s, "%B %d, %Y %I:%M %p") when timed is TRUE:
\* a naive datetime, or Raised
strptime(s, timed) ==
    LET mo == MonthByName(s)
        p1 == IF mo = 0 THEN 0 ELSE 1 + Len(MonthNames[mo])
        p2 == SkipSpace(s, p1)
        dd == TwoDigitField(s, p2, ",", 1, 31)
        p3 == dd[2] + 1
        p4 == SkipSpace(s, p3)
        Dig(q) == q <= Len(s) /\ IsDigit(s[q])
        yok == Dig(p4) /\ Dig(p4 + 1) /\ Dig(p4 + 2) /\ Dig(p4 + 3)
        yy == DigitVal(s[p4]) * 1000 + DigitVal(s[p4 + 1]) * 100
              + DigitVal(s[p4 + 2]) * 10 + DigitVal(s[p4 + 3])
        p5 == p4 + 4
        p6 == SkipSpace(s, p5)
        hh == TwoDigitField(s, p6, ":", 1, 12)
        mm == MinuteField(s, hh[2] + 1)
        p7 == SkipSpace(s, mm[2])
        am == LitAtI(s, p7, <<"A","M">>)
        pm == LitAtI(s, p7, <<"P","M">>)
        hour == IF am THEN (IF hh[1] = 12 THEN 0 ELSE hh[1])
                ELSE (IF hh[1] = 12 THEN 12 ELSE hh[1] + 12)
        dateOk == /\ mo # 0 /\ p2 > p1 /\ dd[1] # -1 /\ p4 > p3 /\ yok
        timeOk == /\ p6 > p5 /\ hh[1] # -1 /\ mm[1] # -1 /\ p7 > mm[2]
                  /\ (am \/ pm) /\ p7 + 2 = Len(s) + 1
    IN  IF ~dateOk THEN Raised
        ELSE IF yy < 1 \/ ~DayInRange(yy, mo, dd[1]) THEN Raised
        ELSE IF ~timed
             THEN (IF p5 = Len(s) + 1
                   THEN [wall |-> WallOf(yy, mo, dd[1], 0, 0), tz |-> "naive", fold |-> 0]
                   ELSE Raised)
        ELSE IF ~timeOk THEN Raised
        ELSE [wall |-> WallOf(yy, mo, dd[1], hour, mm[1]), tz |-> "naive", fold |-> 0]

\* dt.strftime("%Y%m%d")
strftime(dt) ==
    LET n == OrdOfWall(dt.wall)
        two(v) == <<DigitSeq[(v \div 10) + 1], DigitSeq[(v % 10) + 1]>>
    IN  YearDigits(YearOfOrd(n)) \o two(MonthOfOrd(n)) \o two(DayOfOrd(n))

(***************************************************************************)
(* infer_timezone_from_location and extract_ringwalk_time                  *)
(***************************************************************************)
NoZone == "None"
\* the first table entry, in table order, whose key occurs in the location
infer_timezone_from_location(location) ==
    IF location = None \/ location = <<>> THEN NoZone
    ELSE LET hit(k) == Contains(Lower(location), Lower(LOCATION_TIMEZONES[k][1]))
         IN  IF \E k \in DOMAIN LOCATION_TIMEZONES : hit(k)
             THEN LOCATION_TIMEZONES[CHOOSE k \in DOMAIN LOCATION_TIMEZONES :
                                        hit(k) /\ \A j \in 1..(k - 1) : ~hit(j)][2]
             ELSE NoZone

\* the clock pattern \d{1,2}:\d{2}\s*(AM|PM) under re.I at position p:
\* the position after it, 0 when it does not match
ClockAt(s, p) ==
    LET Dig(q) == q >= 1 /\ q <= Len(s) /\ IsDigit(s[q])
        Is(q, c) == q <= Len(s) /\ s[q] = c
        c == IF Dig(p) /\ Dig(p + 1) /\ Is(p + 2, ":") THEN p + 2
             ELSE IF Dig(p) /\ Is(p + 1, ":") THEN p + 1
             ELSE 0
        a == SkipSpace(s, c + 3)
    IN  IF c > 0 /\ Dig(c + 1) /\ Dig(c + 2)
           /\ (LitAtI(s, a, <<"A","M">>) \/ LitAtI(s, a, <<"P","M">>))
        THEN a + 2
        ELSE 0

\* the clock pattern at p, then at most RingwalkWindow characters of one line,
\* then the tag, any letter case
TaggedClockAt(s, p, tag) ==
    LET e == ClockAt(s, p)
    IN  /\ e > 0
        /\ \E n \in 0..RingwalkWindow :
              /\ LitAtI(s, e + n, tag)
              /\ \A q \in e..(e + n - 1) : s[q] # "U+000A"

\* re.search of a ringwalk pattern: group 1 of the leftmost match, or None
RingwalkSearch(s, tag) ==
    IF \E p \in 1..Len(s) : TaggedClockAt(s, p, tag)
    THEN LET p == CHOOSE q \in 1..Len(s) :
                      TaggedClockAt(s, q, tag) /\ \A r \in 1..(q - 1) : ~TaggedClockAt(s, r, tag)
         IN  SubSeq(s, p, ClockAt(s, p) - 1)
    ELSE None

\* strptime of the date and the clock text, read in zone tz, moved to CT_ZONE
ClockInZone(date_str, t, tz) ==
    LET dt == strptime(date_str \o <<" ">> \o t, TRUE)
    IN  IF dt = Raised THEN Raised ELSE AsTimezone(ReplaceTz(dt, tz), CT_ZONE)

\* a datetime in CT_ZONE, NoDatetime for None, or Raised when strptime raises
extract_ringwalk_time(info, date_str, location) ==
    IF info = None \/ info = <<>> THEN NoDatetime
    ELSE
    LET m_et == RingwalkSearch(info, EtLit)
        m_uk == RingwalkSearch(info, UkLit)
        m_local == RingwalkSearch(info, LocalTimeLit)
        tz == infer_timezone_from_location(location)
    IN  IF m_et # None THEN ClockInZone(date_str, m_et, "America/New_York")
        ELSE IF m_uk # None THEN ClockInZone(date_str, m_uk, "Europe/London")
        ELSE IF m_local # None /\ tz # NoZone THEN ClockInZone(date_str, m_local, tz)
        ELSE NoDatetime

(***************************************************************************)
(* build_events_from_text: the body of the loop                            *)
(***************************************************************************)
IsAlnum(c) == IsUpper(c) \/ IsLower(c) \/ IsDigit(c)
\* re.sub(r"[^a-zA-Z0-9]+", "-", s)
\* what position p contributes: a run of other characters gives one hyphen
HyphenPiece(s, p) ==
    IF IsAlnum(s[p]) THEN <<s[p]>>
    ELSE IF p = 1 \/ IsAlnum(s[p - 1]) THEN <<"-">>
    ELSE <<>>
RECURSIVE HyphenateRange(_, _, _)
HyphenateRange(s, lo, hi) ==
    IF lo > hi THEN <<>>
    ELSE IF lo = hi THEN HyphenPiece(s, lo)
    ELSE HyphenateRange(s, lo, (lo + hi) \div 2) \o HyphenateRange(s, (lo + hi) \div 2 + 1, hi)
HyphenateRuns(s) == HyphenateRange(s, 1, Len(s))
\* str.strip("-")
StripHyphens(s) ==
    LET keep == {p \in DOMAIN s : s[p] # "-"}
    IN  IF keep = {} THEN <<>> ELSE SubSeq(s, Least(keep), Greatest(keep))
\* variant: the slug is not lower-cased
Slug_NoLower(slug_base) == StripHyphens(HyphenateRuns(slug_base))
\* re.sub(...).strip("-").lower()
Slug(slug_base) == Lower(StripHyphens(HyphenateRuns(slug_base)))

Truthy(v) == v # None /\ v # <<>>

\* variant: the default hour on the 12-hour dial
DefaultStart_Morning(base_date) ==
    [wall |-> OrdOfWall(base_date.wall) * 1440 + (DefaultHour - 12) * 60,
     tz |-> CT_ZONE, fold |-> 0]
\* the default start: DefaultHour o'clock in CT_ZONE on the card's date
DefaultStart(base_date) ==
    [wall |-> OrdOfWall(base_date.wall) * 1440 + DefaultHour * 60, tz |-> CT_ZONE, fold |-> 0]

\* variant: the duration taken in minutes
EndOf_Minutes(start_dt_ct) ==
    [wall |-> start_dt_ct.wall + DurationHours, tz |-> start_dt_ct.tz, fold |-> 0]
\* end_dt_ct = start_dt_ct + timedelta(hours=3)
EndOf(start_dt_ct) == AddHours(start_dt_ct, DurationHours)

\* the uid of an event
UidOf(uid_date, slug) == uid_date \o <<"-">> \o slug \o UidSuffix

\* start_dt_ct: the resolved ring-walk time, or the default start
StartOf(ringwalk, base_date) ==
    IF ringwalk = NoDatetime THEN DefaultStart(base_date) ELSE ringwalk

\* slug_base: location and headline, or the location alone
SlugBase(location, main_fight) ==
    IF Truthy(main_fight) THEN location \o <<" ">> \o main_fight ELSE location

\* the Event built from the fields and the start time
EventOf(date_str, location, info, main_fight, base_date, start_dt_ct) ==
    [name |-> IF Truthy(main_fight) THEN main_fight ELSE CardNamePrefix \o location,
     begin |-> AsTimezone(start_dt_ct, UTC),
     end |-> AsTimezone(EndOf(start_dt_ct), UTC),
     description |-> <<DateLabel \o date_str, LocationLabel \o location>>
                     \o (IF Truthy(info) THEN <<InfoLabel \o info>> ELSE <<>>)
                     \o <<SourceLine>>,
     uid |-> UidOf(strftime(base_date), Slug(SlugBase(location, main_fight)))]

\* the try block once the ring-walk time and the base date are computed
TryWith(f, ringwalk, base_date) ==
    IF ~Truthy(f[1]) \/ ~Truthy(f[2]) THEN Continue
    ELSE IF ringwalk = Raised THEN Raised
    ELSE IF base_date = Raised THEN Raised
    ELSE EventOf(f[1], f[2], f[3], f[4], base_date, StartOf(ringwalk, base_date))

\* one pass of the try block for the parsed fields f: Continue when a field is
\* missing, Raised when a call raises, otherwise the Event that is appended
TryCard(f) ==
    TryWith(f,
            extract_ringwalk_time(IF Truthy(f[3]) THEN f[3] ELSE <<>>, f[1], f[2]),
            strptime(f[1], FALSE))

(***************************************************************************)
(* Inputs                                                                  *)
(***************************************************************************)
\* the largest processing year and the largest number of cards in a text
MaxYear == 2028
MaxCards == 2
Years == 2027..MaxYear

CardMontreal ==
    <<"F","e","b","r","u","a","r","y"," ","5",":"," ","M","o","n","t","r","e","a","l",","," ",
      "C","a","n","a","d","a"," ","U+1F1F2"," ","(","L","i","v","e"," ","o","n"," ","T","B","A",
      " ","|"," ","a","t"," ","8",":","0","0"," ","P","M"," ","E","T"," ","/"," ","1",":","0",
      "0"," ","A","M"," ","U","K",")"," ","A","l","b","e","r","t"," ","R","a","m","i","r","e",
      "z"," ","v","e","r","s","u","s"," ","L","e","r","r","o","n","e"," ","R","i","c","h","a",
      "r","d","s",","," ","1","2"," ","r","o","u","n","d","s">>
CardGuadalajara ==
    <<"U+00F0","U+0178","U+201C","U+2026"," ","F","e","b","r","u","a","r","y"," ","6",":"," ",
      "G","u","a","d","a","l","a","j","a","r","a",","," ","M","e","x","i","c","o"," ","(","a",
      "t"," ","7",":","0","0"," ","P","M"," ","L","o","c","a","l"," ","/"," ","8",":","0","0",
      " ","P","M"," ","E","T",")"," ","A","l"," ","P","o"," ","v","e","r","s","u","s"," ","B",
      "o"," ","L","i",","," ","1","0"," ","r","o","u","n","d","s"," ","C","y"," ","R","o"," ",
      "v","e","r","s","u","s"," ","D","i"," ","S","u">>
CardSpringForward ==
    <<"M","a","r","c","h"," ","1","2",":"," ","L","a","s"," ","V","e","g","a","s",","," ","U",
      "S","A"," ","(","a","t"," ","1",":","3","0"," ","A","M"," ","E","T",")">>
CardFallBack ==
    <<"N","o","v","e","m","b","e","r"," ","7",":"," ",",",","," ","(","a","t"," ","1",":","3",
      "0"," ","A","M"," ","E","T",")">>
CardLeapDay ==
    <<"F","e","b","r","u","a","r","y"," ","2","9",":"," ","T","o","k","y","o",","," ","J","a",
      "p","a","n"," ","(","a","t"," ","7",":","0","0"," ","P","M"," ","L","o","c","a","l"," ",
      "T","i","m","e",")">>
CardApril31 ==
    <<"A","p","r","i","l"," ","3","1",":"," ","L","o","n","d","o","n",","," ","E","n","g","l",
      "a","n","d"," ","(","a","t"," ","1",":","0","0"," ","A","M"," ","U","K",","," ","l","i",
      "v","e"," ","o","n"," ","N","e","t","f","l","i","x",")">>
CardDayZero ==
    <<"J","u","n","e"," ","0",":"," ","P","a","r","i","s"," ","(","a","t"," ","7",":","0","0",
      " ","P","M"," ","L","o","c","a","l",")">>
CardNoInfo ==
    <<"J","u","n","e"," ","1","2",":"," ","P","a","r","i","s",","," ","F","r","a","n","c","e">>
CardLocalOnly ==
    <<"D","e","c","e","m","b","e","r"," ","3","1",":"," ","P","a","r","i","s",","," ","F","r",
      "a","n","c","e"," ","(","a","t"," ","7",":","0","0"," ","P","M"," ","L","o","c","a","l",
      ")">>
CardNoClock ==
    <<"J","u","l","y"," ","4",":"," ","R","e","n","o"," ","(","L","i","v","e"," ","o","n"," ",
      "D","A","Z","N",")">>
CardSept31 ==
    <<"S","e","p","t","e","m","b","e","r"," ","3","1",":"," ","R","e","n","o",","," ","U","S",
      "A"," ","(","a","t"," ","8",":","0","0"," ","P","M"," ","E","T",")">>
CardBadClock ==
    <<"M","a","y"," ","0","3",":"," ","R","e","n","o",","," ","U","S","A"," ","(","a","t"," ",
      "1","3",":","0","0"," ","P","M"," ","E","T",")">>
CardPool ==
    {CardMontreal, CardGuadalajara, CardSpringForward, CardFallBack, CardLeapDay,
     CardApril31, CardDayZero, CardNoInfo, CardLocalOnly, CardBadClock, CardNoClock, CardSept31}
Preamble == <<"F","i","g","h","t"," "," ","s","c","h","e","d","u","l","e","U+000A">>

\* a text: the preamble, then the cards, one per line
RECURSIVE JoinLines(_)
JoinLines(cs) == IF cs = <<>> THEN <<>> ELSE Head(cs) \o <<"U+000A">> \o JoinLines(Tail(cs))
Texts == {Preamble \o JoinLines(cs) : cs \in UNION {[1..n -> CardPool] : n \in 0..MaxCards}}

InfoEtUk ==
    <<"L","i","v","e"," ","o","n"," ","D","A","Z","N"," ","|"," ","a","t"," ","8",":","0","0",
      " ","P","M"," ","E","T"," ","/"," ","1",":","0","0"," ","A","M"," ","U","K">>
InfoLocalEt ==
    <<"a","t"," ","7",":","0","0"," ","P","M"," ","L","o","c","a","l"," ","/"," ","8",":","0",
      "0"," ","P","M"," ","E","T">>
InfoLocal == <<"a","t"," ","7",":","0","0"," ","P","M"," ","L","o","c","a","l">>
InfoLocalTime ==
    <<"a","t"," ","7",":","0","0"," ","P","M"," ","L","o","c","a","l"," ","T","i","m","e">>
InfoUk == <<"a","t"," ","1",":","0","0"," ","A","M"," ","U","K">>
InfoUkNetflix ==
    <<"a","t"," ","1",":","0","0"," ","A","M"," ","U","K",","," ","l","i","v","e"," ","o","n",
      " ","N","e","t","f","l","i","x">>
InfoLocalUk ==
    <<"a","t"," ","7",":","0","0"," ","P","M"," ","L","o","c","a","l"," ","/"," ","1",":","0",
      "0"," ","A","M"," ","U","K">>
InfoHour13 == <<"a","t"," ","1","3",":","0","0"," ","P","M"," ","E","T">>
InfoHour0 == <<"a","t"," ","0",":","3","0"," ","A","M"," ","U","K">>
InfoMinute75 == <<"a","t"," ","8",":","7","5"," ","P","M"," ","E","T">>
InfoNoSpace == <<"a","t"," ","8",":","0","0","P","M"," ","E","T">>
InfoNight == <<"a","t"," ","1",":","3","0"," ","A","M"," ","E","T">>
InfoNoClock == <<"L","i","v","e"," ","o","n"," ","D","A","Z","N">>
InfoLower == <<"a","t"," ","9",":","1","5"," ","p","m"," ","e","t">>
InfoPool ==
    {None, <<>>, InfoEtUk, InfoLocalEt, InfoLocal, InfoLocalTime, InfoUk,
     InfoUkNetflix, InfoLocalUk, InfoHour13, InfoHour0, InfoMinute75, InfoNoSpace,
     InfoNight, InfoNoClock, InfoLower}
LocGuadalajara ==
    <<"G","u","a","d","a","l","a","j","a","r","a",","," ","M","e","x","i","c","o">>
LocVegas == <<"L","a","s"," ","V","e","g","a","s",","," ","U","S","A">>
LocParis == <<"P","a","r","i","s",","," ","F","r","a","n","c","e">>
LocLondon == <<"L","o","n","d","o","n",","," ","E","n","g","l","a","n","d">>
LocTokyo == <<"T","o","k","y","o",","," ","J","a","p","a","n">>
LocationPool ==
    {LocGuadalajara, LocVegas, LocParis, LocLondon, LocTokyo}
DayFeb5 == <<"F","e","b","r","u","a","r","y"," ","5">>
DayFeb29 == <<"F","e","b","r","u","a","r","y"," ","2","9">>
DayMar12 == <<"M","a","r","c","h"," ","1","2">>
DayNov7 == <<"N","o","v","e","m","b","e","r"," ","7">>
DayApr31 == <<"A","p","r","i","l"," ","3","1">>
DayJun0 == <<"J","u","n","e"," ","0">>
DayOct31 == <<"O","c","t","o","b","e","r"," ","3","1">>
DayPool ==
    {DayFeb5, DayFeb29, DayMar12, DayNov7, DayApr31, DayJun0, DayOct31}
\* date_str as parse_card_header_and_fights builds it
DateStr(day, year) == day \o <<",", " ">> \o YearDigits(year)

(***************************************************************************)
(* build_events_from_text as a state machine                               *)
(***************************************************************************)
Init ==
    /\ current_year \in Years
    /\ text \in Texts
    /\ cards = <<>>
    /\ idx = 0
    /\ card = None
    /\ fields = <<None, None, None, None>>
    /\ events = <<>>
    /\ pc = "split"
    /\ args = [info |-> None, date_str |-> None, location |-> None]
    /\ ret = NoDatetime

\* cards = split_into_cards(text); events = []
SplitIntoCards ==
    /\ pc = "split"
    /\ cards' = split_into_cards(text)
    /\ events' = <<>>
    /\ pc' = "for"
    /\ UNCHANGED <<current_year, text, idx, card, fields, args, ret>>

\* for card in cards: the next card
ForNext ==
    /\ pc = "for"
    /\ idx < Len(cards)
    /\ idx' = idx + 1
    /\ card' = cards[idx + 1]
    /\ pc' = "parse"
    /\ UNCHANGED <<current_year, text, cards, fields, events, args, ret>>

\* date_str, location, info, main_fight = parse_card_header_and_fights(card)
ParseCard ==
    /\ pc = "parse"
    /\ fields' = parse_card_header_and_fights(card, current_year)
    /\ pc' = "try"
    /\ UNCHANGED <<current_year, text, cards, idx, card, events, args, ret>>

\* variant: no except clause, the exception leaves the function
AfterCard_Propagate(r, evs) ==
    IF r = Continue THEN [events |-> evs, pc |-> "for"]
    ELSE IF r = Raised THEN [events |-> evs, pc |-> "raised"]
    ELSE [events |-> Append(evs, r), pc |-> "for"]
\* what the loop does with the outcome r of the try block:
\* `continue` on a missing field, `except Exception: continue`, or append
AfterCard(r, evs) ==
    IF r = Continue THEN [events |-> evs, pc |-> "for"]
    ELSE IF r = Raised THEN [events |-> evs, pc |-> "for"]
    ELSE [events |-> Append(evs, r), pc |-> "for"]

\* the rest of the try block for the current card
AssembleEvent ==
    /\ pc = "try"
    /\ \E after \in {AfterCard(TryCard(fields), events)} :
           /\ events' = after.events
           /\ pc' = after.pc
    /\ UNCHANGED <<current_year, text, cards, idx, card, fields, args, ret>>

\* return events
Return ==
    /\ pc = "for"
    /\ idx = Len(cards)
    /\ pc' = "done"
    /\ UNCHANGED <<current_year, text, cards, idx, card, fields, events, args, ret>>

Next == SplitIntoCards \/ ForNext \/ ParseCard \/ AssembleEvent \/ Return

Spec == Init /\ [][Next]_vars

(***************************************************************************)
(* extract_ringwalk_time called on its own                                 *)
(***************************************************************************)
InitRingwalk ==
    /\ current_year \in Years
    /\ args \in [info : InfoPool,
                 date_str : {DateStr(d, current_year) : d \in DayPool},
                 location : LocationPool]
    /\ ret = NoDatetime
    /\ pc = "call"
    /\ text = <<>>
    /\ cards = <<>>
    /\ idx = 0
    /\ card = None
    /\ fields = <<None, None, None, None>>
    /\ events = <<>>

CallExtractRingwalkTime ==
    /\ pc = "call"
    /\ ret' = extract_ringwalk_time(args.info, args.date_str, args.location)
    /\ pc' = "returned"
    /\ UNCHANGED <<current_year, text, cards, idx, card, fields, events, args>>

NextRingwalk == CallExtractRingwalkTime

SpecRingwalk == InitRingwalk /\ [][NextRingwalk]_vars

(***************************************************************************)
(* What a card span says, read straight from its text                      *)
(***************************************************************************)
\* the text of the span after the anchor
WrittenRest(c) == Strip(HeaderMatch(normalize_space(c)).g4)
\* location, info and headline as the span spells them after the anchor
WrittenFields(c) == FieldsFrom(HeaderMatch(normalize_space(c)).g2, WrittenRest(c), current_year)
\* the text after the first closing parenthesis of the span
WrittenBouts(c) ==
    LET r == WrittenRest(c)
        close == Find(r, <<")">>)
    IN  IF close = 0 THEN <<>> ELSE Strip(From(r, close + 1))
\* month and day number of the anchor
AnchorMonth(c) == AnchorAt(normalize_space(c), 1).month
AnchorDay(c) ==
    LET t == normalize_space(c)
        a == AnchorAt(t, 1)
    IN  IF IsDigit(t[a.colon - 2])
        THEN DigitVal(t[a.colon - 2]) * 10 + DigitVal(t[a.colon - 1])
        ELSE DigitVal(t[a.colon - 1])
ValidAnchorDate(c) ==
    AnchorDay(c) >= 1 /\ AnchorDay(c) <= DaysInMonth(current_year, AnchorMonth(c))

IsLetter(c) == IsUpper(c) \/ IsLower(c)
\* the tag stands in s as a word of its own, in any letter case
TokenAt(s, p, tag) ==
    /\ LitAtI(s, p, tag)
    /\ (p = 1 \/ ~IsLetter(s[p - 1]))
    /\ (p + Len(tag) > Len(s) \/ ~IsLetter(s[p + Len(tag)]))
HasToken(s, tag) == \E p \in DOMAIN s : TokenAt(s, p, tag)
HasClock(s) == \E p \in DOMAIN s : ClockAt(s, p) > 0
\* the clock text that the tag annotates: the tag is the next word after it
AnnotatedClocks(s, tag) ==
    {p \in DOMAIN s : ClockAt(s, p) > 0 /\ TokenAt(s, SkipSpace(s, ClockAt(s, p)), tag)}
AnnotatedClock(s, tag) ==
    LET p == Least(AnnotatedClocks(s, tag)) IN SubSeq(s, p, ClockAt(s, p) - 1)
\* the first clock text with the tag as a word at most RingwalkWindow characters after it
FollowedClocks(s, tag) ==
    {p \in DOMAIN s :
        /\ ClockAt(s, p) > 0
        /\ \E n \in 0..RingwalkWindow : TokenAt(s, ClockAt(s, p) + n, tag)}
FollowedClock(s, tag) ==
    LET p == Least(FollowedClocks(s, tag)) IN SubSeq(s, p, ClockAt(s, p) - 1)
LocalLit == <<"L","o","c","a","l">>

\* the loop has just finished the card `card`, and appended an event for it
Finished == pc = "for" /\ idx >= 1
EmittedForCard ==
    /\ Finished
    /\ events # <<>>
    /\ ValidAnchorDate(card)
    /\ events[Len(events)].description[1] = DateLabel \o fields[1]
\* the step of the loop that appends an event
Emits == pc = "try" /\ Len(events') = Len(events) + 1

IsSlugChar(c) == IsLower(c) \/ IsDigit(c) \/ c = "-"
UidMatches(u) ==
    /\ Len(u) >= 12
    /\ \A p \in 1..8 : IsDigit(u[p])
    /\ u[9] = "-"
    /\ \E a \in 11..(Len(u) - 1) :
          /\ u[a] = "@"
          /\ \A p \in 10..(a - 1) : IsSlugChar(u[p])
          /\ \A p \in (a + 1)..Len(u) : u[p] # "U+000A"

Outcome(c) == TryCard(parse_card_header_and_fights(c, current_year))
Succeeds(c) == Outcome(c) # Raised /\ Outcome(c) # Continue
RECURSIVE EventsOfSucceeding(_)
EventsOfSucceeding(cs) ==
    IF cs = <<>> THEN <<>>
    ELSE LET o == Outcome(cs[Len(cs)])
         IN  EventsOfSucceeding(Upto(cs, Len(cs) - 1))
             \o (IF o # Raised /\ o # Continue THEN <<o>> ELSE <<>>)

C3_FailureDropsOnlyThatCard ==
    /\ pc \in {"split", "for", "parse", "try", "done"}
    /\ pc = "for" => events = EventsOfSucceeding(Upto(cards, idx))
    /\ pc = "done" => idx = Len(cards) /\ events = EventsOfSucceeding(cards)

\* the run is over, a card failed and a later card gave the only event
C3_Witness ==
    /\ pc = "done"
    /\ Len(events) = 1
    /\ \E i, j \in DOMAIN cards : i < j /\ Outcome(cards[i]) = Raised /\ Succeeds(cards[j])

(***************************************************************************)
(* C4: when a clock time of the info text is annotated with ET,            *)
(* extract_ringwalk_time returns that clock time read in America/New_York  *)
(* on the card's date, whatever other annotated clock times stand around.  *)
(***************************************************************************)
C4_EtAnnotatedClockWins ==
    (/\ pc = "returned"
     /\ args.info # None
     /\ AnnotatedClocks(args.info, EtLit) # {}
     /\ ClockInZone(args.date_str, AnnotatedClock(args.info, EtLit), "America/New_York") # Raised)
    => ret = ClockInZone(args.date_str, AnnotatedClock(args.info, EtLit), "America/New_York")

(***************************************************************************)
(* C5: when the only annotation of the info text is a clock time followed  *)
(* by Local and the location resolves to a zone, the start is that clock   *)
(* time read in the location's zone on the card's date.                    *)
(***************************************************************************)
C5_LocalClockInLocationZone ==
    (/\ pc = "returned"
     /\ args.info # None
     /\ AnnotatedClocks(args.info, LocalLit) # {}
     /\ ~HasToken(args.info, EtLit)
     /\ ~HasToken(args.info, UkLit)
     /\ infer_timezone_from_location(args.location) # NoZone
     /\ strptime(args.date_str, FALSE) # Raised)
    => ret = ClockInZone(args.date_str, AnnotatedClock(args.info, LocalLit),
                         infer_timezone_from_location(args.location))

(***************************************************************************)
(* C6: extract_ringwalk_time never raises on a card whose date is valid;   *)
(* clock text that is not a 12-hour time counts as no match.               *)
(***************************************************************************)
ClockHour(s, p) ==
    IF IsDigit(s[p + 1]) THEN DigitVal(s[p]) * 10 + DigitVal(s[p + 1]) ELSE DigitVal(s[p])
ClockMinute(s, p) ==
    LET c == IF IsDigit(s[p + 1]) THEN p + 2 ELSE p + 1
    IN  DigitVal(s[c + 1]) * 10 + DigitVal(s[c + 2])
\* clock text at p that is no 12-hour time
BadClockAt(s, p) ==
    /\ ClockAt(s, p) > 0
    /\ (ClockHour(s, p) = 0 \/ ClockHour(s, p) > 12 \/ ClockMinute(s, p) > 59)
C6_NeverRaises ==
    (/\ pc = "returned"
     /\ args.info # None
     /\ strptime(args.date_str, FALSE) # Raised
     /\ \E p \in DOMAIN args.info : BadClockAt(args.info, p))
    => ret # Raised

(***************************************************************************)
(* C7: when the bouts text of a card is a capitalised name, "versus", a    *)
(* second name and then a comma and further text, the headline bout is     *)
(* the text up to the comma and nothing after it.                          *)
(***************************************************************************)
NamesBeforeComma(b) ==
    /\ b # <<>>
    /\ IsUpper(b[1])
    /\ Find(b, <<",">>) > 0
    /\ \E p \in 1..Find(b, <<",">>) : LitAt(b, p, BoutSepLit \o <<" ">>)
C7_HeadlineStopsAtSecondName ==
    (Finished /\ NamesBeforeComma(WrittenBouts(card)))
    => fields[4] = Upto(WrittenBouts(card), Find(WrittenBouts(card), <<",">>) - 1)

(***************************************************************************)
(* C8: an event for a card whose info text is absent or has no clock time, *)
(* or whose only annotation is Local with a location that matches no zone  *)
(* keyword, starts at 21:00 America/Chicago on the card's date.            *)
(***************************************************************************)
C8_Case(c) ==
    LET w == WrittenFields(c)
    IN  \/ w[3] = None
        \/ ~HasClock(w[3])
        \/ /\ AnnotatedClocks(w[3], LocalLit) # {}
           /\ ~HasToken(w[3], EtLit)
           /\ ~HasToken(w[3], UkLit)
           /\ infer_timezone_from_location(w[2]) = NoZone
StartsAtNinePm(ev, c) ==
    /\ ev.begin.tz = UTC
    /\ FromUtc(CT_ZONE, ev.begin.wall).wall
         = WallOf(current_year, AnchorMonth(c), AnchorDay(c), 21, 0)

C8_DefaultStart ==
    [][(Emits /\ C8_Case(card)) => StartsAtNinePm(events'[Len(events')], card)]_vars

\* an event was emitted for a card whose only annotation is Local and whose
\* location matches no zone keyword
C8_Witness ==
    /\ EmittedForCard
    /\ WrittenFields(card)[3] # None
    /\ AnnotatedClocks(WrittenFields(card)[3], LocalLit) # {}
    /\ ~HasToken(WrittenFields(card)[3], EtLit)
    /\ ~HasToken(WrittenFields(card)[3], UkLit)
    /\ infer_timezone_from_location(WrittenFields(card)[2]) = NoZone

(***************************************************************************)
(* C9: the try block of a card whose anchor is not a date of the           *)
(* processing year appends no event, whatever the card's info text.        *)
(***************************************************************************)
C9_InvalidDateNoEvent ==
    [][(pc = "try" /\ ~ValidAnchorDate(card)) => events' = events]_vars

\* the loop has finished a card with an impossible date and an ET clock time
C9_Witness ==
    /\ Finished
    /\ ~ValidAnchorDate(card)
    /\ WrittenFields(card)[3] # None
    /\ AnnotatedClocks(WrittenFields(card)[3], EtLit) # {}

(***************************************************************************)
(* C10: when a clock time is followed within 40 characters by the word UK  *)
(* and the word ET does not occur in the info text, the start is that      *)
(* clock time read in Europe/London on the card's date.                    *)
(***************************************************************************)
C10_UkWhenNoEtWord ==
    (/\ pc = "returned"
     /\ args.info # None
     /\ FollowedClocks(args.info, UkLit) # {}
     /\ ~HasToken(args.info, EtLit)
     /\ ClockInZone(args.date_str, FollowedClock(args.info, UkLit), "Europe/London") # Raised)
    => ret = ClockInZone(args.date_str, FollowedClock(args.info, UkLit), "Europe/London")

====
